---------------------------- MODULE Spec2Model ----------------------------
(***************************************************************************)
(* A model of the news-to-video automation: the relevance filter of        *)
(* news_collector.py, the content generator of ai_script_generator.py,     *)
(* the narration synthesizer of tts_generator.py, the publisher of         *)
(* youtube_uploader.py and the orchestrator of main_workflow.py.           *)
(*                                                                         *)
(* Text.  A Python str is modelled as a sequence of characters, each       *)
(* character a one-element string.  ASCII characters stand for             *)
(* themselves; a Hangul syllable is the atom "k-" followed by its          *)
(* romanisation (the source's Korean literals are not ASCII).  A text      *)
(* that the code splits on '\n' is kept as the list of its lines, which    *)
(* is what str.split('\n') returns.  A value that may be None is the       *)
(* record [isNone, lines].                                                 *)
(*                                                                         *)
(* Exceptions.  An operation that may raise returns [raised, error,        *)
(* value]; an action that calls it follows the except clause of its        *)
(* caller when raised is TRUE.                                             *)
(*                                                                         *)
(* Writes to the local file system (audio, video and JSON artifacts) are   *)
(* taken to succeed; timestamps are left out of the records.               *)
(***************************************************************************)
EXTENDS Integers, Sequences, FiniteSets, TLC

VARIABLES
    (* main_workflow.py: NewsYouTubeAutomation *)
    config,        \* self.config and the collaborators built from it
    pc,            \* position inside run_full_workflow / _process_single_article
    articles,      \* the ranked list returned by _step1_collect_news
    selected,      \* selected_articles
    idx,           \* index (from 1) of the article being processed
    result,        \* the result dict of the run in progress
    results,       \* the results list of run_full_workflow
    stages,        \* the stages started in the run in progress, in order
    calls,         \* requests sent to backends and upload_video invocations
    last,          \* what the last stage call returned or raised
    saved,         \* the aggregate records written by _save_workflow_results
    news_json,     \* what save_to_json wrote to output/collected_news.json
    (* an operation of a component called on its own *)
    call           \* the operation, its arguments and, once done, its result

vars == <<config, pc, articles, selected, idx, result, results, stages,
          calls, last, saved, news_json, call>>

wfVars == <<config, pc, articles, selected, idx, result, results, stages,
            calls, last, saved, news_json>>

-----------------------------------------------------------------------------
(* Python built-ins on str and list *)

Min(a, b) == IF a <= b THEN a ELSE b

\* s[:n] for n >= 0
Take(s, n) == SubSeq(s, 1, Min(n, Len(s)))

\* s[n:] for n >= 0
Drop(s, n) == SubSeq(s, n + 1, Len(s))

IsSpace(c) == c \in {" ", "\t", "\r", "\n"}

\* str.isdigit on one character
IsDigit(c) == c \in {"0", "1", "2", "3", "4", "5", "6", "7", "8", "9"}

RECURSIVE LStrip(_)
LStrip(s) == IF s # <<>> /\ IsSpace(Head(s)) THEN LStrip(Tail(s)) ELSE s

RECURSIVE RStrip(_)
RStrip(s) ==
    IF s # <<>> /\ IsSpace(s[Len(s)]) THEN RStrip(SubSeq(s, 1, Len(s) - 1)) ELSE s

\* str.strip()
Strip(s) == RStrip(LStrip(s))

\* w in s
Contains(s, w) ==
    \E i \in 1..(Len(s) - Len(w) + 1) : SubSeq(s, i, i + Len(w) - 1) = w

\* s.startswith(w)
StartsWith(s, w) == Len(w) <= Len(s) /\ SubSeq(s, 1, Len(w)) = w

\* the index of the first occurrence of character c in s, 0 when there is none
FirstIndex(s, c) ==
    IF \E i \in 1..Len(s) : s[i] = c
    THEN CHOOSE i \in 1..Len(s) : s[i] = c /\ \A j \in 1..(i - 1) : s[j] # c
    ELSE 0

\* s.split(c, 1)[-1]
AfterFirst(s, c) == Drop(s, FirstIndex(s, c))

\* '\n'.join(lines)
RECURSIVE JoinLines(_)
JoinLines(lines) ==
    IF lines = <<>> THEN <<>>
    ELSE IF Len(lines) = 1 THEN lines[1]
    ELSE lines[1] \o <<"\n">> \o JoinLines(Tail(lines))

\* a str value and the None value
Str(lines) == [isNone |-> FALSE, lines |-> lines]
None == [isNone |-> TRUE, lines |-> <<>>]

\* a call that returned v, and a call that raised the exception e
Return(v) == [raised |-> FALSE, error |-> "", value |-> v]
Raise(e) == [raised |-> TRUE, error |-> e, value |-> None]

-----------------------------------------------------------------------------
(* ai_script_generator.py *)

\* the words _call_mock looks for in a prompt
W_thumbnail == <<"k-sseom", "k-ne", "k-il">>
W_title == <<"k-je", "k-mok">>
W_VIDEO_TITLE == <<"V", "I", "D", "E", "O", "_", "T", "I", "T", "L", "E">>
W_metadata == <<"k-me", "k-ta", "k-de", "k-i", "k-teo">>

\* the literal text of each prompt template, as the set of those words it holds
TemplateWords(template) ==
    CASE template = "script" -> {W_title}
      [] template = "thumbnail" -> {W_thumbnail, W_title}
      [] template = "metadata" -> {W_metadata, W_title, W_VIDEO_TITLE}

\* a prompt: a template and the strings formatted into it
Prompt(template, parts) == [template |-> template, parts |-> parts]

\* word in prompt
InPrompt(w, prompt) ==
    \/ w \in TemplateWords(prompt.template)
    \/ \E i \in 1..Len(prompt.parts) : Contains(prompt.parts[i], w)

\* the three canned responses of _call_mock, each split at '\n'
MockTitlesLines ==
    << <<>>,
       <<"1", ".", " ", "k-i", "k-geo", " ", "k-sil", "k-hwa", "k-in", "k-ga", "k-yo", "?">>,
       <<"2", ".", " ", "k-chung", "k-gyeok", "!", " ", "0", "0", "k-eok", " ", "k-nal", "k-ryeoss", "k-da">>,
       <<"3", ".", " ", "k-gyeol", "k-guk", " ", "k-teo", "k-jyeoss", "k-seup", "k-ni", "k-da">>,
       <<"4", ".", " ", "k-al", "k-go", " ", "k-bo", "k-ni", " ", "k-dae", "k-bak">>,
       <<"5", ".", " ", "k-ji", "k-geum", " ", "k-dang", "k-jang", " ", "k-hwak", "k-in", "k-ha", "k-se", "k-yo">>,
       <<"6", ".", " ", "9", "9", "%", " ", "k-mo", "k-reu", "k-neun", " ", "k-sa", "k-sil">>,
       <<"7", ".", " ", "k-dwi", "k-neuj", "k-eun", " ", "k-hu", "k-hoe">>,
       <<"8", ".", " ", "k-jeon", "k-mun", "k-ga", "k-do", " ", "k-nol", "k-ran">>,
       <<"9", ".", " ", "k-i", "k-je", "k-ya", " ", "k-balk", "k-hyeo", "k-jin", " ", "k-jin", "k-sil">>,
       <<"1", "0", ".", " ", "k-ban", "k-deu", "k-si", " ", "k-al", "k-a", "k-ya", " ", "k-hal">>,
       <<" ", " ", " ", " ", " ", " ", " ", " ", " ", " ", " ", " ">> >>

MockMetadataLines ==
    << <<>>,
       <<"V", "I", "D", "E", "O", "_", "T", "I", "T", "L", "E", ":", " ", "[", "k-chung", "k-gyeok", "]", " ", "k-sam", "k-seong", "k-jeon", "k-ja", " ", "0", "0", "0", "k-eok", " ", "k-tu", "k-ja", " ", "k-gyeol", "k-jeong", "!", " ", "k-ju", "k-ga", " ", "k-yeong", "k-hyang", "k-eun", "?">>,
       <<"D", "E", "S", "C", "R", "I", "P", "T", "I", "O", "N", ":", " ", "k-sam", "k-seong", "k-jeon", "k-ja", "k-ga", " ", "k-ban", "k-do", "k-che", " ", "k-bun", "k-ya", "k-e", " ", "k-dae", "k-gyu", "k-mo", " ", "k-tu", "k-ja", "k-reul", " ", "k-gyeol", "k-jeong", "k-haess", "k-seup", "k-ni", "k-da", ".", " ", "k-i", "k-beon", " ", "k-tu", "k-ja", "k-ga", " ", "k-guk", "k-nae", " ", "k-gyeong", "k-je", "k-wa", " ", "k-ju", "k-ga", "k-e", " ", "k-mi", "k-chil", " ", "k-yeong", "k-hyang", "k-eul", " ", "k-ja", "k-se", "k-hi", " ", "k-bun", "k-seok", "k-hap", "k-ni", "k-da", ".", " ", "k-chul", "k-cheo", ":", " ", "k-ne", "k-i", "k-beo", "k-nyu", "k-seu">>,
       <<"T", "A", "G", "S", ":", " ", "k-sam", "k-seong", "k-jeon", "k-ja", ",", " ", "k-ban", "k-do", "k-che", ",", " ", "k-tu", "k-ja", ",", " ", "k-ju", "k-ga", ",", " ", "k-gyeong", "k-je", "k-nyu", "k-seu", ",", " ", "k-si", "k-ni", "k-eo", "k-nyu", "k-seu", ",", " ", "k-han", "k-guk", "k-gyeong", "k-je", ",", " ", "k-gi", "k-sul", "k-ju", ",", " ", "k-jeung", "k-si", ",", " ", "k-jae", "k-te", "k-keu">>,
       <<" ", " ", " ", " ", " ", " ", " ", " ", " ", " ", " ", " ">> >>

MockScriptLines ==
    << <<>>,
       <<"k-yeo", "k-reo", "k-bun", ",", " ", "k-an", "k-nyeong", "k-ha", "k-se", "k-yo", ".", " ", "k-o", "k-neul", "k-eun", " ", "k-jeong", "k-mal", " ", "k-jung", "k-yo", "k-han", " ", "k-so", "k-sik", "k-eul", " ", "k-ga", "k-ji", "k-go", " ", "k-wass", "k-seup", "k-ni", "k-da", ".">>,
       <<>>,
       <<"[", "k-do", "k-ip", "k-bu", "]">>,
       <<"k-hok", "k-si", " ", "k-yeo", "k-reo", "k-bun", ",", " ", "k-i", " ", "k-so", "k-sik", " ", "k-deul", "k-eo", "k-bo", "k-syeoss", "k-na", "k-yo", "?", " ", "k-choe", "k-geun", " ", "k-manh", "k-eun", " ", "k-bun", "k-deul", "k-i", " ", "k-gwan", "k-sim", "k-eul", " ", "k-ga", "k-ji", "k-go", " ", "k-gye", "k-sin", " ", "k-nae", "k-yong", "k-in", "k-de", "k-yo", ",", " ", "k-o", "k-neul", " ", "k-ja", "k-se", "k-hi", " ", "k-al", "k-a", "k-bo", "k-do", "k-rok", " ", "k-ha", "k-gess", "k-seup", "k-ni", "k-da", ".">>,
       <<>>,
       <<"[", "k-bon", "k-mun", "]">>,
       <<"k-meon", "k-jeo", " ", "k-sa", "k-geon", "k-ui", " ", "k-jeon", "k-mal", "k-eul", " ", "k-mal", "k-sseum", "k-deu", "k-ri", "k-ja", "k-myeon", ".", ".", ".", " ", "(", "k-jung", "k-ryak", ")">>,
       <<>>,
       <<"k-i", "k-neun", " ", "k-u", "k-ri", " ", "k-saeng", "k-hwal", "k-e", " ", "k-eo", "k-tteon", " ", "k-yeong", "k-hyang", "k-eul", " ", "k-mi", "k-chil", "k-kka", "k-yo", "?", " ", "k-jeon", "k-mun", "k-ga", "k-deul", "k-eun", ".", ".", ".">>,
       <<>>,
       <<"[", "k-ma", "k-mu", "k-ri", "]">>,
       <<"k-o", "k-neul", " ", "k-yeong", "k-sang", "k-i", " ", "k-do", "k-um", "k-i", " ", "k-doe", "k-syeoss", "k-da", "k-myeon", " ", "k-gu", "k-dok", "k-gwa", " ", "k-joh", "k-a", "k-yo", ",", " ", "k-al", "k-rim", " ", "k-seol", "k-jeong", " ", "k-bu", "k-tak", "k-deu", "k-rip", "k-ni", "k-da", ".">>,
       <<"k-da", "k-eum", " ", "k-yeong", "k-sang", "k-e", "k-seo", "k-neun", " ", "k-deo", " ", "k-yu", "k-ik", "k-han", " ", "k-jeong", "k-bo", "k-ro", " ", "k-chaj", "k-a", "k-boep", "k-gess", "k-seup", "k-ni", "k-da", ".", " ", "k-gam", "k-sa", "k-hap", "k-ni", "k-da", ".">>,
       <<" ", " ", " ", " ", " ", " ", " ", " ", " ", " ", " ", " ">> >>

\* AIScriptGenerator._call_mock
_call_mock(prompt) ==
    IF InPrompt(W_thumbnail, prompt) \/ InPrompt(W_title, prompt)
    THEN Str(MockTitlesLines)
    ELSE IF InPrompt(W_VIDEO_TITLE, prompt) \/ InPrompt(W_metadata, prompt)
    THEN Str(MockMetadataLines)
    ELSE Str(MockScriptLines)

(* What a backend does with one request: requests.post raises, or answers  *)
(* with a status code and a body.  The body either fails the code's        *)
(* extraction (not JSON, or the path choices[0].message.content and its    *)
(* likes is missing), or holds at that path a string or a JSON null.       *)
Exception == [kind |-> "exception", status |-> 0, body |-> "none", text |-> None]
Response(status, body, text) ==
    [kind |-> "response", status |-> status, body |-> body, text |-> text]

\* the body of the three _call_<backend> methods, which differ in URL,
\* headers and the path of the text in the JSON answer
BackendCall(prompt, o) ==
    IF o.kind = "exception" THEN _call_mock(prompt)
    ELSE IF o.status = 200
         THEN IF o.body = "invalid" THEN _call_mock(prompt) ELSE o.text
         ELSE _call_mock(prompt)

\* AIScriptGenerator._call_openai
_call_openai(prompt, o) == BackendCall(prompt, o)

\* AIScriptGenerator._call_gemini
_call_gemini(prompt, o) == BackendCall(prompt, o)

\* AIScriptGenerator._call_anthropic
_call_anthropic(prompt, o) == BackendCall(prompt, o)

\* AIScriptGenerator._call_ai_api
_call_ai_api(service, prompt, o) ==
    IF service = "openai" THEN _call_openai(prompt, o)
    ELSE IF service = "gemini" THEN _call_gemini(prompt, o)
    ELSE IF service = "anthropic" THEN _call_anthropic(prompt, o)
    ELSE _call_mock(prompt)

\* a mutant of AiRequests: a request is sent again
AiRequestsTwice(service) == IF service \in {"openai", "gemini", "anthropic"} THEN 2 ELSE 0

\* the number of HTTP requests _call_ai_api sends
AiRequests(service) == IF service \in {"openai", "gemini", "anthropic"} THEN 1 ELSE 0

\* the service argument of a constructor called without it
Unset == "<unset>"

\* AIScriptGenerator.__init__: self.service
AIScriptGenerator(service) == IF service = Unset THEN "openai" ELSE service

\* AIScriptGenerator.generate_youtube_script: the 'script' of the dict it returns
generate_youtube_script(service, article, o) ==
    Return(_call_ai_api(service,
                        Prompt("script", <<article.title, article.description>>), o))

\* the first comprehension of generate_thumbnail_titles
KeepsLine(line) == Strip(line) # <<>> /\ \E i \in 1..Min(3, Len(line)) : IsDigit(line[i])

\* the second comprehension of generate_thumbnail_titles
StripNumber(title) ==
    IF \E i \in 1..Min(5, Len(title)) : title[i] = "."
    THEN Strip(AfterFirst(title, "."))
    ELSE title

\* titles = [line.strip() for line in response.split('\n') if ...]
RECURSIVE KeptTitles(_)
KeptTitles(lines) ==
    IF lines = <<>> THEN <<>>
    ELSE (IF KeepsLine(Head(lines)) THEN <<Strip(Head(lines))>> ELSE <<>>)
         \o KeptTitles(Tail(lines))

\* a mutant of ParseTitles: the truncation is one short
ParseTitlesShort(lines, count) ==
    LET titles == KeptTitles(lines)
    IN  Take([i \in 1..Len(titles) |-> StripNumber(titles[i])], count - 1)

\* the parsing of generate_thumbnail_titles
ParseTitles(lines, count) ==
    LET titles == KeptTitles(lines)
    IN  Take([i \in 1..Len(titles) |-> StripNumber(titles[i])], count)

\* AIScriptGenerator.generate_thumbnail_titles
generate_thumbnail_titles(service, article, count, o) ==
    LET response == _call_ai_api(service, Prompt("thumbnail", <<article.title>>), o)
    IN  IF response.isNone
        THEN Raise("AttributeError: 'NoneType' object has no attribute 'split'")
        ELSE Return(ParseTitles(response.lines, count))

\* line.replace(w, '')
RECURSIVE Remove(_, _)
Remove(s, w) ==
    IF s = <<>> THEN <<>>
    ELSE IF StartsWith(s, w) THEN Remove(Drop(s, Len(w)), w)
    ELSE <<Head(s)>> \o Remove(Tail(s), w)

\* s.split(c) for a one-character separator
RECURSIVE Split(_, _)
Split(s, c) ==
    IF FirstIndex(s, c) = 0 THEN <<s>>
    ELSE <<Take(s, FirstIndex(s, c) - 1)>> \o Split(AfterFirst(s, c), c)

M_VIDEO_TITLE == W_VIDEO_TITLE \o <<":">>
M_DESCRIPTION == <<"D", "E", "S", "C", "R", "I", "P", "T", "I", "O", "N", ":">>
M_TAGS == <<"T", "A", "G", "S", ":">>

\* a mutant of TagList: the tags are left as split
TagListUntrimmed(tags_str) == Split(tags_str, ",")

\* [tag.strip() for tag in tags_str.split(',')]
TagList(tags_str) ==
    LET tags == Split(tags_str, ",") IN [i \in 1..Len(tags) |-> Strip(tags[i])]

\* one iteration of the parsing loop of generate_video_metadata
ParseLine(metadata, line) ==
    IF StartsWith(line, M_VIDEO_TITLE)
    THEN [k \in DOMAIN metadata \cup {"title"} |->
            IF k = "title" THEN Strip(Remove(line, M_VIDEO_TITLE)) ELSE metadata[k]]
    ELSE IF StartsWith(line, M_DESCRIPTION)
    THEN [k \in DOMAIN metadata \cup {"description"} |->
            IF k = "description" THEN Strip(Remove(line, M_DESCRIPTION)) ELSE metadata[k]]
    ELSE IF StartsWith(line, M_TAGS)
    THEN [k \in DOMAIN metadata \cup {"tags"} |->
            IF k = "tags" THEN TagList(Strip(Remove(line, M_TAGS))) ELSE metadata[k]]
    ELSE metadata

\* the parsing loop of generate_video_metadata
RECURSIVE ParseMetadata(_, _)
ParseMetadata(metadata, lines) ==
    IF lines = <<>> THEN metadata
    ELSE ParseMetadata(ParseLine(metadata, Head(lines)), Tail(lines))

\* the empty dict
EmptyDict == [k \in {} |-> <<>>]

\* script[:500] of the metadata prompt
ScriptExcerpt == 500

\* AIScriptGenerator.generate_video_metadata
generate_video_metadata(service, article, script, o) ==
    IF script.isNone
    THEN Raise("TypeError: 'NoneType' object is not subscriptable")
    ELSE LET prompt == Prompt("metadata",
                              <<article.title,
                                Take(JoinLines(script.lines), ScriptExcerpt)>>)
             response == _call_ai_api(service, prompt, o)
         IN  IF response.isNone
             THEN Raise("AttributeError: 'NoneType' object has no attribute 'split'")
             ELSE Return(ParseMetadata(EmptyDict, response.lines))

-----------------------------------------------------------------------------
(* tts_generator.py *)

(* What the synthesis backend does with one call: lib says whether the     *)
(* google.cloud client library can be imported; the request raises or is   *)
(* answered with a status code (the Google client returns or raises).      *)
TtsOutcome(lib, kind, status) == [lib |-> lib, kind |-> kind, status |-> status]

AudioPath == "output/audio/voice.mp3"

\* TTSGenerator._generate_mock
_generate_mock(text) ==
    Return([status |-> "success (mock)", output_file |-> AudioPath, service |-> "mock"])

\* the request and answer handling shared by _generate_elevenlabs and
\* _generate_azure_tts
HttpSynthesis(service, text, o) ==
    IF o.kind = "exception" THEN _generate_mock(text)
    ELSE IF o.status = 200
         THEN Return([status |-> "success", output_file |-> AudioPath,
                      service |-> service])
         ELSE _generate_mock(text)

\* TTSGenerator._generate_elevenlabs
_generate_elevenlabs(text, o) == HttpSynthesis("elevenlabs", text, o)

\* TTSGenerator._generate_azure_tts
_generate_azure_tts(text, o) == HttpSynthesis("azure", text, o)

\* TTSGenerator._generate_google_tts: the import precedes the try
_generate_google_tts(text, o) ==
    IF ~o.lib THEN Raise("ModuleNotFoundError: No module named 'google'")
    ELSE IF o.kind = "exception" THEN _generate_mock(text)
    ELSE Return([status |-> "success", output_file |-> AudioPath, service |-> "google"])

\* TTSGenerator.generate_audio
generate_audio(service, text, o) ==
    IF service = "elevenlabs" THEN _generate_elevenlabs(text, o)
    ELSE IF service = "google" THEN _generate_google_tts(text, o)
    ELSE IF service = "azure" THEN _generate_azure_tts(text, o)
    ELSE _generate_mock(text)

\* the number of requests generate_audio sends to the backend
TtsRequests(service, o) ==
    IF service \in {"elevenlabs", "azure"} THEN 1
    ELSE IF service = "google" /\ o.lib THEN 1
    ELSE 0

\* text.replace('\n', ' ')
ReplaceNewlines(s) == [i \in 1..Len(s) |-> IF s[i] = "\n" THEN " " ELSE s[i]]

\* s.find(w) + 1: the least place where w starts in s, 0 when there is none
Find(s, w) ==
    LET starts == {i \in 1..(Len(s) - Len(w) + 1) : SubSeq(s, i, i + Len(w) - 1) = w}
    IN  IF starts = {} THEN 0 ELSE CHOOSE i \in starts : \A j \in starts : i <= j

\* s.split(sep)
RECURSIVE SplitOn(_, _)
SplitOn(s, sep) ==
    LET i == Find(s, sep)
    IN  IF i = 0 THEN <<s>>
        ELSE <<SubSeq(s, 1, i - 1)>> \o SplitOn(SubSeq(s, i + Len(sep), Len(s)), sep)

\* '. '
SentenceEnd == <<".", " ">>

\* if current_chunk: chunks.append(current_chunk.strip())
Flush(chunks, current_chunk) ==
    IF current_chunk # <<>> THEN Append(chunks, Strip(current_chunk)) ELSE chunks

\* the loop of split_text_for_tts over the sentences, and what follows it
RECURSIVE Accumulate(_, _, _, _)
Accumulate(sentences, chunks, current_chunk, max_length) ==
    IF sentences = <<>> THEN Flush(chunks, current_chunk)
    ELSE LET sentence == Head(sentences)
         IN  IF Len(current_chunk) + Len(sentence) < max_length
             THEN Accumulate(Tail(sentences), chunks,
                             current_chunk \o sentence \o SentenceEnd, max_length)
             ELSE Accumulate(Tail(sentences), Flush(chunks, current_chunk),
                             sentence \o SentenceEnd, max_length)

\* TTSGenerator.split_text_for_tts
split_text_for_tts(text, max_length) ==
    Accumulate(SplitOn(ReplaceNewlines(text), SentenceEnd), <<>>, <<>>, max_length)

-----------------------------------------------------------------------------
(* youtube_uploader.py *)

\* YouTubeUploader._upload_mock
_upload_mock(title) ==
    [status |-> "success (mock)", video_id |-> "MOCK_id",
     video_url |-> "https://www.youtube.com/watch?v=MOCK_id", title |-> title]

\* title[:100]
TitleLimit == 100

\* description[:5000]
DescriptionLimit == 5000

(* What the platform does with one upload.  fail is the place in the try   *)
(* block that raises: "media" (MediaFileUpload, for instance a missing     *)
(* file), "insert" (videos().insert), "chunk" (the at-th next_chunk),      *)
(* "response" (the answer has no 'id'), or "none"; chunks is the number of *)
(* next_chunk calls the upload needs; exists is os.path.exists of the      *)
(* thumbnail file and thumb the outcome of thumbnails().set().execute().   *)
UploadOutcome(fail, chunks, at, exists, thumb) ==
    [fail |-> fail, chunks |-> chunks, at |-> at, exists |-> exists, thumb |-> thumb]

\* the text of the exception each place raises
ErrorText(fail) ==
    CASE fail = "media" -> "[Errno 2] No such file or directory"
      [] fail = "insert" -> "UnknownApiNameOrVersion"
      [] fail = "chunk" -> "HttpError"
      [] fail = "response" -> "'id'"

\* a mutant of Snippet: the texts are sent as given
SnippetWhole(a) ==
    [title |-> a.title, description |-> a.description, tags |-> a.tags,
     categoryId |-> a.category_id]

\* body['snippet']
Snippet(a) ==
    [title |-> Take(a.title, TitleLimit),
     description |-> Take(a.description, DescriptionLimit),
     tags |-> a.tags, categoryId |-> a.category_id]

\* a mutant of Scheduled: the privacy status is not looked at
ScheduledAnyPrivacy(publish_at, privacy_status) == publish_at # "None"

\* if publish_at and privacy_status == "private"
Scheduled(publish_at, privacy_status) ==
    publish_at # "None" /\ privacy_status = "private"

\* publish_at.isoformat() + 'Z'
IsoZ(publish_at) == <<publish_at, "Z">>

\* body['status']
StatusPart(a) ==
    IF Scheduled(a.publish_at, a.privacy_status)
    THEN [privacyStatus |-> "private", selfDeclaredMadeForKids |-> FALSE,
          publishAt |-> IsoZ(a.publish_at)]
    ELSE [privacyStatus |-> a.privacy_status, selfDeclaredMadeForKids |-> FALSE]

\* the body of the insert request
Body(a) == [snippet |-> Snippet(a), status |-> StatusPart(a)]

\* the requests of the chunked upload loop: the body goes with each of them
ChunkRequests(a, n) ==
    [i \in 1..n |-> [request |-> "videos.insert", chunk |-> i, body |-> Body(a)]]

\* a mutant of ThumbnailWanted: the file is not looked for
ThumbnailGiven(a, o) == a.thumbnail_file # "None"

\* if thumbnail_file and os.path.exists(thumbnail_file)
ThumbnailWanted(a, o) == a.thumbnail_file # "None" /\ o.exists

\* YouTubeUploader._upload_thumbnail: the request it sends; its exception
\* is caught inside
_upload_thumbnail(video_id, thumbnail_file) ==
    <<[request |-> "thumbnails.set", videoId |-> video_id, file |-> thumbnail_file]>>

\* a mutant of UploadError: the exception goes on to the caller
UploadErrorRaised(e) == Raise(e)

\* the except branch of upload_video
UploadError(e) == Return([status |-> "error", error |-> e])

\* YouTubeUploader.upload_video: client says whether the API library was
\* imported and _authenticate built self.youtube.  The value is the call's
\* outcome (ret) and the requests it sent to the platform (sent).
upload_video(client, a, o) ==
    IF ~client THEN [ret |-> Return(_upload_mock(a.title)), sent |-> <<>>]
    ELSE IF o.fail \in {"media", "insert"}
    THEN [ret |-> UploadError(ErrorText(o.fail)), sent |-> <<>>]
    ELSE IF o.fail = "chunk"
    THEN [ret |-> UploadError(ErrorText(o.fail)), sent |-> ChunkRequests(a, o.at)]
    ELSE IF o.fail = "response"
    THEN [ret |-> UploadError(ErrorText(o.fail)), sent |-> ChunkRequests(a, o.chunks)]
    ELSE [ret |-> Return([status |-> "success", video_id |-> "id",
                          video_url |-> "https://www.youtube.com/watch?v=id",
                          title |-> a.title, privacy_status |-> a.privacy_status,
                          publish_at |-> a.publish_at]),
          sent |-> ChunkRequests(a, o.chunks)
                   \o IF ThumbnailWanted(a, o)
                      THEN _upload_thumbnail("id", a.thumbnail_file) ELSE <<>>]

\* dict.get(key): the value, or None when the key is missing
Get(dict, key) == IF key \in DOMAIN dict THEN dict[key] ELSE "None"

-----------------------------------------------------------------------------
(* news_collector.py *)

UpperCase == <<"A", "B", "C", "D", "E", "F", "G", "H", "I", "J", "K", "L", "M",
               "N", "O", "P", "Q", "R", "S", "T", "U", "V", "W", "X", "Y", "Z">>
LowerCase == <<"a", "b", "c", "d", "e", "f", "g", "h", "i", "j", "k", "l", "m",
               "n", "o", "p", "q", "r", "s", "t", "u", "v", "w", "x", "y", "z">>

\* str.lower(): Hangul has no case
Lower(s) ==
    [i \in 1..Len(s) |->
        IF \E n \in 1..Len(UpperCase) : UpperCase[n] = s[i]
        THEN LowerCase[CHOOSE n \in 1..Len(UpperCase) : UpperCase[n] = s[i]]
        ELSE s[i]]

(* Scores are kept in quarters, so that the code's 0.5 is 2 and a keyword  *)
(* match is 4: relevance_score = 4 * matches + 2.                          *)
Score(keywords, title) ==
    4 * Cardinality({k \in 1..Len(keywords) :
                        Contains(Lower(title), Lower(keywords[k]))}) + 2

\* article['relevance_score'] = score
Scored(keywords, article) ==
    [title |-> article.title, description |-> article.description,
     keyword |-> article.keyword,
     relevance_score |-> Score(keywords, article.title)]

\* a mutant of Keeps: the threshold itself is dropped
KeepsAbove(score, min_relevance) == score > min_relevance

\* if score >= min_relevance
Keeps(score, min_relevance) == score >= min_relevance

\* the loop of filter_trending_news: the articles kept, in input order
RECURSIVE ScoredArticles(_, _, _)
ScoredArticles(keywords, arts, min_relevance) ==
    IF arts = <<>> THEN <<>>
    ELSE LET a == Scored(keywords, Head(arts))
         IN  (IF Keeps(a.relevance_score, min_relevance) THEN <<a>> ELSE <<>>)
             \o ScoredArticles(keywords, Tail(arts), min_relevance)

\* a mutant of InsertDesc: x goes in front of its equals
RECURSIVE InsertDescFront(_, _)
InsertDescFront(sorted, x) ==
    IF sorted = <<>> THEN <<x>>
    ELSE IF Head(sorted).relevance_score > x.relevance_score
    THEN <<Head(sorted)>> \o InsertDescFront(Tail(sorted), x)
    ELSE <<x>> \o sorted

\* x put into a list sorted by non-increasing score, behind its equals
RECURSIVE InsertDesc(_, _)
InsertDesc(sorted, x) ==
    IF sorted = <<>> THEN <<x>>
    ELSE IF Head(sorted).relevance_score >= x.relevance_score
    THEN <<Head(sorted)>> \o InsertDesc(Tail(sorted), x)
    ELSE <<x>> \o sorted

\* list.sort(key=relevance_score, reverse=True): stable, ties keep their order
RECURSIVE SortDesc(_, _)
SortDesc(sorted, rest) ==
    IF rest = <<>> THEN sorted
    ELSE SortDesc(InsertDesc(sorted, Head(rest)), Tail(rest))

\* NewsCollector.filter_trending_news
filter_trending_news(keywords, arts, min_relevance) ==
    SortDesc(<<>>, ScoredArticles(keywords, arts, min_relevance))

\* the default of min_relevance, 0.5, in quarters
DefaultMinRelevance == 2

-----------------------------------------------------------------------------
(* The inputs: configurations, feeds and backend behaviours *)

\* the most videos per day a configuration asks for
MaxTarget == 2

AiServices == {"openai", "gemini", "anthropic", "mock"}
TtsServices == {"elevenlabs", "google", "azure", "mock"}

\* config['keywords']
Keywords == << <<"k-sam", "k-seong">> >>

\* the titles of the entries a feed may hold
Titles == { <<"k-sam", "k-seong", " ", "A", "I">>, <<"k-nal", "k-ssi">> }

\* the lists of distinct elements of S
Arrangements(S) ==
    {s \in UNION {[1..k -> S] : k \in 0..Cardinality(S)} :
        \A i, j \in 1..Len(s) : i # j => s[i] # s[j]}

\* the configurations, with and without a 'target_videos_per_day'
Configs ==
    [ai_service : AiServices \cup {Unset}, tts_service : TtsServices, auto_upload : BOOLEAN,
     youtube : BOOLEAN, target_videos_per_day : 0..MaxTarget, keywords : {Keywords}]
    \cup [ai_service : AiServices \cup {Unset}, tts_service : TtsServices,
          auto_upload : BOOLEAN, youtube : BOOLEAN, keywords : {Keywords}]

\* the lists over S of length at most n
SeqsUpTo(S, n) == UNION {[1..k -> S] : k \in 0..n}

\* the texts a real backend answers with, by prompt
BackendText(template) ==
    CASE template = "script" ->
            Str(<< <<"k-yeo", "k-reo", "k-bun", ",", " ", "k-so", "k-sik">> >>)
      [] template = "thumbnail" ->
            Str(<< <<"1", ".", " ", "k-chung", "k-gyeok">>,
                   <<"2", ".", " ", "k-sil", "k-hwa">> >>)
      [] template = "metadata" ->
            Str(<< <<"V", "I", "D", "E", "O", "_", "T", "I", "T", "L", "E", ":", " ",
                     "k-nyu", "k-seu">>,
                   <<"T", "A", "G", "S", ":", " ", "k-gyeong", "k-je", ",", " ", "A", "I">> >>)

\* what a text-generation backend may do with the request of one prompt
AiOutcomes(service, template) ==
    IF service \in {"openai", "gemini", "anthropic"}
    THEN {Exception,
          Response(500, "invalid", None),
          Response(201, "text", BackendText(template)),
          Response(200, "invalid", None),
          Response(200, "text", BackendText(template)),
          Response(200, "null", None)}
    ELSE {Exception}

\* what a synthesis backend may do with one call
TtsOutcomes(service) ==
    IF service \in {"elevenlabs", "azure"}
    THEN {TtsOutcome(TRUE, "exception", 0), TtsOutcome(TRUE, "response", 200),
          TtsOutcome(TRUE, "response", 401)}
    ELSE IF service = "google"
    THEN {TtsOutcome(FALSE, "exception", 0), TtsOutcome(TRUE, "exception", 0),
          TtsOutcome(TRUE, "response", 200)}
    ELSE {TtsOutcome(TRUE, "exception", 0)}

\* what the feed request of one keyword may do: raise, or give entries
Feeds ==
    {[ok |-> FALSE, entries |-> <<>>]}
    \cup {[ok |-> TRUE, entries |-> e] : e \in Arrangements(Titles)}

\* the most chunks an upload takes
MaxChunks == 2

\* what the platform may do with one upload
UploadOutcomes ==
    { UploadOutcome(f, n, 1, e, t) :
        f \in {"none", "media", "insert", "response"},
        n \in 1..MaxChunks, e \in BOOLEAN, t \in {"ok", "exception"} }
    \cup UNION { { UploadOutcome("chunk", n, k, e, "ok") : k \in 1..n, e \in BOOLEAN } :
                    n \in 1..MaxChunks }

\* what the platform may do with the upload of a run, which has no thumbnail
PublishOutcomes ==
    {UploadOutcome("none", 1, 1, FALSE, "ok"), UploadOutcome("chunk", 1, 1, FALSE, "ok")}

-----------------------------------------------------------------------------
(* main_workflow.py *)

\* count=10 of the call of generate_thumbnail_titles
ThumbnailCount == 10

VideoPath == "output/videos/video.mp4"

\* feed.entries[:10]
FeedLimit == 10

\* a mutant of fetch_google_news_rss: the articles built before the exception
\* are returned
FetchKeepsPartial(keyword, feed) ==
    [i \in 1..Min(Len(feed.entries), FeedLimit) |->
        [title |-> feed.entries[i], description |-> <<>>, keyword |-> keyword]]

\* NewsCollector.fetch_google_news_rss: the first entries of the keyword's
\* feed as articles; none when the request, the parsing or the reading of
\* an entry raised (feed.entries are then the entries read before that)
fetch_google_news_rss(keyword, feed) ==
    IF ~feed.ok THEN <<>>
    ELSE [i \in 1..Min(Len(feed.entries), FeedLimit) |->
            [title |-> feed.entries[i], description |-> <<>>, keyword |-> keyword]]

\* the feed requests of collect_all_news: one feedparser.parse per turn of
\* its loop
RECURSIVE FeedRequests(_)
FeedRequests(keywords) ==
    IF keywords = <<>> THEN <<>>
    ELSE <<[request |-> "feedparser.parse", q |-> Head(keywords)]>>
         \o FeedRequests(Tail(keywords))

\* NewsCollector.collect_all_news
RECURSIVE collect_all_news(_, _)
collect_all_news(keywords, feeds) ==
    IF keywords = <<>> THEN <<>>
    ELSE fetch_google_news_rss(Head(keywords), Head(feeds))
         \o collect_all_news(Tail(keywords), Tail(feeds))

\* NewsYouTubeAutomation.__init__: the service of self.ai_generator, built
\* with service=self.config.get('ai_service', 'mock')
AiService(c) ==
    AIScriptGenerator(IF c.ai_service = Unset THEN "mock" ELSE c.ai_service)

\* d[key] = value on a dict
Put(dict, key, value) ==
    [k \in DOMAIN dict \cup {key} |-> IF k = key THEN value ELSE dict[k]]

\* what the last stage call did: the operation and what it returned or raised
Call(op, ret) == [op |-> op, ret |-> ret]
NoCall == Call("none", Return(None))

NoCalls == [ai |-> 0, tts |-> 0, upload |-> 0]

WfInit ==
    /\ config \in Configs
    /\ pc = "collect"
    /\ articles = <<>>
    /\ selected = <<>>
    /\ idx = 0
    /\ result = EmptyDict
    /\ results = <<>>
    /\ stages = <<>>
    /\ calls = NoCalls
    /\ last = NoCall
    /\ saved = <<>>
    /\ news_json = <<>>

\* a mutant of AfterCollect: the workflow goes on without articles
AfterCollectSelects(arts) == "select"

\* if not articles: return, in run_full_workflow
AfterCollect(arts) == IF arts = <<>> THEN "stopped" ELSE "select"

\* run_full_workflow up to the check of the collected articles, with
\* _step1_collect_news
Step1Collect ==
    /\ pc = "collect"
    /\ \E feeds \in [1..Len(config.keywords) -> Feeds] :
          articles' = filter_trending_news(
                          config.keywords,
                          collect_all_news(config.keywords, feeds),
                          DefaultMinRelevance)
    /\ news_json' = Append(news_json, [total_count |-> Len(articles'),
                                        articles |-> articles'])
    /\ pc' = AfterCollect(articles')
    /\ UNCHANGED <<config, selected, idx, result, results, stages, calls, last, saved, call>>

\* the default of self.config.get('target_videos_per_day', 3)
DefaultTarget == 3

\* self.config.get('target_videos_per_day', 3)
TargetCount(c) ==
    IF "target_videos_per_day" \in DOMAIN c THEN c.target_videos_per_day
    ELSE DefaultTarget

\* a mutant of _step2_select_articles: every article is selected
SelectAll(arts, c) == arts

\* _step2_select_articles: articles[:target_count]
_step2_select_articles(arts, c) == Take(arts, TargetCount(c))

\* run_full_workflow calls _step2_select_articles
Step2Select ==
    /\ pc = "select"
    /\ selected' = _step2_select_articles(articles, config)
    /\ pc' = "loop"
    /\ UNCHANGED <<config, articles, idx, result, results, stages, calls, last, saved, news_json, call>>

\* the for loop of run_full_workflow enters _process_single_article
BeginRun ==
    /\ pc = "loop"
    /\ idx < Len(selected)
    /\ idx' = idx + 1
    /\ result' = [article_title |-> selected[idx + 1].title, status |-> "processing"]
    /\ stages' = <<>>
    /\ last' = NoCall
    /\ pc' = "script"
    /\ UNCHANGED <<config, articles, selected, results, calls, saved, news_json, call>>

\* a mutant of Failed: the exception leaves run_full_workflow
FailedAborts(e) ==
    /\ result' = Put(Put(result, "status", "failed"), "error", e)
    /\ results' = results
    /\ pc' = "raised"

\* a mutant of Failed: the failed record is a new one
FailedBare(e) ==
    /\ result' = [article_title |-> result.article_title, status |-> "failed",
                  error |-> e]
    /\ results' = Append(results, result')
    /\ pc' = "loop"

\* the except clause of _process_single_article, its return and
\* results.append(result)
Failed(e) ==
    /\ result' = Put(Put(result, "status", "failed"), "error", e)
    /\ results' = Append(results, result')
    /\ pc' = "loop"

\* a mutant of Continue: the stage is tried again
ContinueAgain(key, value, next) ==
    /\ result' = Put(result, key, value)
    /\ results' = results
    /\ pc' = pc

\* a stage returned: the record gains the stage's artifact
Continue(key, value, next) ==
    /\ result' = Put(result, key, value)
    /\ results' = results
    /\ pc' = next

article == selected[idx]

\* stage 3: generate_youtube_script
StageScript ==
    /\ pc = "script"
    /\ stages' = Append(stages, "script")
    /\ \E o \in AiOutcomes(AiService(config), "script") :
          LET ret == generate_youtube_script(AiService(config), article, o)
          IN  /\ last' = Call("script", ret)
              /\ IF ret.raised THEN Failed(ret.error)
                 ELSE Continue("script", ret.value, "thumbnail")
    /\ calls' = [calls EXCEPT !.ai = @ + AiRequests(AiService(config))]
    /\ UNCHANGED <<config, articles, selected, idx, saved, news_json, call>>

\* stage 3.5: generate_thumbnail_titles and the choice of best_title
StageThumbnail ==
    /\ pc = "thumbnail"
    /\ stages' = Append(stages, "thumbnail")
    /\ \E o \in AiOutcomes(AiService(config), "thumbnail") :
          LET ret == generate_thumbnail_titles(AiService(config), article,
                                               ThumbnailCount, o)
          IN  /\ last' = Call("thumbnail", ret)
              /\ IF ret.raised THEN Failed(ret.error)
                 ELSE Continue("thumbnail_title",
                               IF ret.value # <<>> THEN ret.value[1] ELSE article.title,
                               "metadata")
    /\ calls' = [calls EXCEPT !.ai = @ + AiRequests(AiService(config))]
    /\ UNCHANGED <<config, articles, selected, idx, saved, news_json, call>>

\* generate_video_metadata
StageMetadata ==
    /\ pc = "metadata"
    /\ stages' = Append(stages, "metadata")
    /\ \E o \in AiOutcomes(AiService(config), "metadata") :
          LET ret == generate_video_metadata(AiService(config), article,
                                             result.script, o)
          IN  /\ last' = Call("metadata", ret)
              /\ IF ret.raised THEN Failed(ret.error)
                 ELSE Continue("metadata", ret.value, "audio")
    /\ calls' = [calls EXCEPT !.ai = @ + (IF result.script.isNone THEN 0
                                          ELSE AiRequests(AiService(config)))]
    /\ UNCHANGED <<config, articles, selected, idx, saved, news_json, call>>

\* stage 4: generate_audio
StageAudio ==
    /\ pc = "audio"
    /\ stages' = Append(stages, "audio")
    /\ \E o \in TtsOutcomes(config.tts_service) :
          LET ret == generate_audio(config.tts_service, result.script, o)
          IN  /\ last' = Call("audio", ret)
              /\ calls' = [calls EXCEPT !.tts = @ + TtsRequests(config.tts_service, o)]
              /\ IF ret.raised THEN Failed(ret.error)
                 ELSE Continue("audio_file", ret.value.output_file, "assemble")
    /\ UNCHANGED <<config, articles, selected, idx, saved, news_json, call>>

\* stage 5: _step5_edit_video
StageAssemble ==
    /\ pc = "assemble"
    /\ stages' = Append(stages, "assemble")
    /\ last' = Call("assemble", Return(VideoPath))
    /\ Continue("video_file", VideoPath, "publish")
    /\ UNCHANGED <<config, articles, selected, idx, calls, saved, news_json, call>>

\* a mutant of ShouldUpload: the flag is not looked at
AlwaysUpload(auto_upload) == TRUE

\* if auto_upload
ShouldUpload(auto_upload) == auto_upload

\* a mutant of Completed: the status is left as it was
CompletedUnset(record) == record

\* result['status'] = 'completed'
Completed(record) == Put(record, "status", "completed")

\* stage 6 with auto_upload: upload_video, then result['status'] =
\* 'completed', the return and results.append(result)
StagePublish ==
    /\ pc = "publish"
    /\ ShouldUpload(config.auto_upload)
    /\ stages' = Append(stages, "publish")
    /\ \E o \in PublishOutcomes :
          LET metadata == result.metadata
              upload == upload_video(config.youtube,
                           [video_file |-> result.video_file,
                            title |-> IF "title" \in DOMAIN metadata
                                      THEN metadata.title ELSE article.title,
                            description |-> IF "description" \in DOMAIN metadata
                                            THEN metadata.description ELSE <<>>,
                            tags |-> IF "tags" \in DOMAIN metadata
                                     THEN metadata.tags ELSE <<>>,
                            category_id |-> "25", privacy_status |-> "public",
                            thumbnail_file |-> "None", publish_at |-> "None"],
                           o)
          IN  /\ last' = Call("publish", upload.ret)
              /\ IF upload.ret.raised
                 THEN Failed(upload.ret.error)
                 ELSE /\ result' = Completed(Put(Put(result, "video_url",
                                                     Get(upload.ret.value, "video_url")),
                                                 "video_id",
                                                 Get(upload.ret.value, "video_id")))
                      /\ results' = Append(results, result')
                      /\ pc' = "loop"
    /\ calls' = [calls EXCEPT !.upload = @ + 1]
    /\ UNCHANGED <<config, articles, selected, idx, saved, news_json, call>>

\* stage 6 without auto_upload: result['status'] = 'completed', the return
\* and results.append(result)
SkipPublish ==
    /\ pc = "publish"
    /\ ~ShouldUpload(config.auto_upload)
    /\ result' = Completed(result)
    /\ results' = Append(results, result')
    /\ pc' = "loop"
    /\ UNCHANGED <<config, articles, selected, idx, stages, calls, last, saved, news_json, call>>

\* a mutant of Aggregate: only the completed runs are counted
AggregateCompleted(rs) ==
    [total_videos |-> Len(SelectSeq(rs, LAMBDA r : r.status = "completed")),
     results |-> rs]

\* the object _save_workflow_results dumps
Aggregate(rs) == [total_videos |-> Len(rs), results |-> rs]

\* the end of run_full_workflow: _save_workflow_results
SaveResults ==
    /\ pc = "loop"
    /\ idx = Len(selected)
    /\ saved' = Append(saved, Aggregate(results))
    /\ pc' = "done"
    /\ UNCHANGED <<config, articles, selected, idx, result, results, stages, calls, last, news_json, call>>

WfNext ==
    \/ Step1Collect
    \/ Step2Select
    \/ BeginRun
    \/ StageScript
    \/ StageThumbnail
    \/ StageMetadata
    \/ StageAudio
    \/ StageAssemble
    \/ StagePublish
    \/ SkipPublish
    \/ SaveResults

Idle == [op |-> "none", done |-> TRUE]

Init == WfInit /\ call = Idle

Next == WfNext

\* run_full_workflow, from every configuration
Spec == Init /\ [][Next]_vars

-----------------------------------------------------------------------------
(* The operations of the components, each called on its own *)

\* the most keywords of a collector
MaxKeywords == 2

\* the most articles handed to filter_trending_news
MaxNews == 3

\* the largest min_relevance, in quarters
MaxMinRelevance == 10

KeywordPool == { <<"k-sam", "k-seong">>, <<"A", "I">> }

NewsPool ==
    { [title |-> t, description |-> <<>>, keyword |-> <<"A", "I">>] :
        t \in { <<"k-sam", "k-seong", " ", "A", "I">>,
                <<"a", "i", " ", "k-nyu", "k-seu">>,
                <<"k-sam", "k-seong", "k-jeon", "k-ja">>,
                <<"k-nal", "k-ssi">> } }

\* an article for the generator: title and description
Sample ==
    [title |-> <<"k-ku", "k-pang", ",", " ", "k-sae", "k-byeok", "k-bae", "k-song">>,
     description |-> <<"k-ro", "k-ket", "k-bae", "k-song">>,
     keyword |-> <<"k-ku", "k-pang">>]

\* service names, one of them unknown to the components
AnyAiService == AiServices \cup {"other", Unset}
AnyTtsService == TtsServices \cup {"other"}

FilterCalls ==
    { [op |-> "filter", done |-> FALSE, keywords |-> k, articles |-> a,
       min_relevance |-> m] :
        k \in SeqsUpTo(KeywordPool, MaxKeywords), a \in SeqsUpTo(NewsPool, MaxNews),
        m \in 0..MaxMinRelevance }

GeneratorCalls ==
    UNION { { [op |-> t, done |-> FALSE, service |-> s, article |-> Sample,
               script |-> sc, outcome |-> o, count |-> ThumbnailCount] :
                o \in AiOutcomes(AIScriptGenerator(s), t),
                sc \in IF t = "metadata" THEN {None, BackendText("script")}
                       ELSE {BackendText("script")} } :
            s \in AnyAiService, t \in {"script", "thumbnail", "metadata"} }

AudioCalls ==
    UNION { { [op |-> "audio", done |-> FALSE, service |-> s,
               text |-> BackendText("script"), outcome |-> o] :
                o \in TtsOutcomes(s) } : s \in AnyTtsService }

\* a text of n characters
Chars(n) == [i \in 1..n |-> "x"]

\* the lengths of the titles and descriptions handed to upload_video
TitleLengths == {5, 99, 100, 101, 150}
DescriptionLengths == {0, 4999, 5000, 5001, 6000}

UploadArgs(title, description, privacy_status, thumbnail_file, publish_at) ==
    [video_file |-> VideoPath, title |-> title, description |-> description,
     tags |-> << <<"A", "I">> >>, category_id |-> "22",
     privacy_status |-> privacy_status, thumbnail_file |-> thumbnail_file,
     publish_at |-> publish_at]

\* upload_video with every setting and platform behaviour on short texts,
\* and with texts around the two limits on an upload that goes well
UploadCalls ==
    { [op |-> "upload", done |-> FALSE, client |-> c,
       args |-> UploadArgs(Chars(5), Chars(7), p, t, at), outcome |-> o] :
        c \in BOOLEAN, p \in {"public", "private", "unlisted"},
        t \in {"None", "thumb.jpg"}, at \in {"None", "2026-01-01T18:00:00"},
        o \in UploadOutcomes }
    \cup
    { [op |-> "upload", done |-> FALSE, client |-> TRUE,
       args |-> UploadArgs(Chars(n), Chars(m), "public", "None", "None"),
       outcome |-> UploadOutcome("none", 1, 1, FALSE, "ok")] :
        n \in TitleLengths, m \in DescriptionLengths }

\* the feeds of collect_all_news: failed before or after some entries were
\* read, empty, with an entry twice, and with more entries than are read
CollectFeeds ==
    LET t1 == <<"k-sam", "k-seong", " ", "A", "I">>
        t2 == <<"k-nal", "k-ssi">>
    IN  { [ok |-> FALSE, entries |-> <<>>], [ok |-> FALSE, entries |-> <<t1>>],
          [ok |-> TRUE, entries |-> <<>>], [ok |-> TRUE, entries |-> <<t1, t2>>],
          [ok |-> TRUE, entries |-> <<t2, t2>>],
          [ok |-> TRUE, entries |-> [i \in 1..(FeedLimit + 1) |-> t1]] }

CollectCalls ==
    UNION { { [op |-> "collect", done |-> FALSE, keywords |-> k, feeds |-> f] :
                f \in [1..Len(k) -> CollectFeeds] } :
            k \in SeqsUpTo(KeywordPool, MaxKeywords) }

\* the most lines of a backend's answer
MaxLines == 3

\* the largest count handed to generate_thumbnail_titles
MaxCount == 2

\* lines of an answer to the thumbnail prompt: numbered with '.', ')' and
\* ':', numbered behind three blanks, not numbered, and with a digit that
\* is no number of the line
TitleLines ==
    { <<"1", ".", " ", "k-chung", "k-gyeok">>,
      <<"2", ")", " ", "k-sil", "k-hwa">>,
      <<"3", ":", " ", "k-sok", "k-bo">>,
      <<" ", " ", " ", "4", ".", " ", "k-dok", "k-jeom">>,
      <<"k-nyu", "k-seu">>,
      <<"A", "I", "2", " ", "k-si", "k-dae">> }

\* lines of an answer to the metadata prompt
MetadataLines ==
    { M_VIDEO_TITLE \o <<" ", "k-nyu", "k-seu", " ">>,
      M_DESCRIPTION \o <<" ", "k-so", "k-sik">>,
      M_TAGS \o <<" ", "k-gyeong", "k-je", " ", ",", " ", "A", "I", ",", "k-ju", "k-sik">>,
      M_TAGS,
      <<" ">> \o M_TAGS \o <<"A", "I">>,
      <<"k-an", "k-nyeong">> }

\* generate_thumbnail_titles and generate_video_metadata on the answers a
\* backend may give
AnswerCalls ==
    { [op |-> "thumbnail", done |-> FALSE, service |-> "openai", article |-> Sample,
       script |-> BackendText("script"), outcome |-> Response(200, "text", Str(l)),
       count |-> c] :
        l \in SeqsUpTo(TitleLines, MaxLines), c \in 0..MaxCount }
    \cup
    { [op |-> "metadata", done |-> FALSE, service |-> "openai", article |-> Sample,
       script |-> BackendText("script"), outcome |-> Response(200, "text", Str(l)),
       count |-> ThumbnailCount] :
        l \in SeqsUpTo(MetadataLines, MaxLines) }

\* the longest text handed to split_text_for_tts
MaxText == 5

\* the largest max_length handed to split_text_for_tts
MaxChunkLength == 5

SplitCalls ==
    { [op |-> "split", done |-> FALSE, text |-> t, max_length |-> m] :
        t \in SeqsUpTo({"a", ".", " ", "\n"}, MaxText), m \in 0..MaxChunkLength }

\* the longest ranked list _step2_select_articles is called on
MaxRanked == 4

\* a ranked list of n articles, the titles all different
Ranked(n) ==
    [i \in 1..n |-> [title |-> [j \in 1..i |-> "x"], relevance_score |-> n - i]]

\* _step2_select_articles on every ranked list, with every quota and with
\* a configuration without 'target_videos_per_day'
SelectCalls ==
    { [op |-> "select", done |-> FALSE, articles |-> Ranked(n), config |-> c] :
        n \in 0..MaxRanked,
        c \in {[keywords |-> Keywords]}
              \cup {[keywords |-> Keywords, target_videos_per_day |-> q] :
                       q \in 0..MaxRanked} }

OpsInit ==
    /\ call \in FilterCalls \cup GeneratorCalls \cup AudioCalls \cup UploadCalls
                 \cup CollectCalls \cup SplitCalls \cup AnswerCalls
                 \cup SelectCalls
    /\ config = [ai_service |-> "mock", tts_service |-> "mock", auto_upload |-> FALSE,
                 youtube |-> FALSE, target_videos_per_day |-> 0, keywords |-> Keywords]
    /\ pc = "idle"
    /\ articles = <<>>
    /\ selected = <<>>
    /\ idx = 0
    /\ result = EmptyDict
    /\ results = <<>>
    /\ stages = <<>>
    /\ calls = NoCalls
    /\ last = NoCall
    /\ saved = <<>>
    /\ news_json = <<>>

Done(ret) == [k \in DOMAIN call \cup {"ret"} |->
                IF k = "ret" THEN ret ELSE IF k = "done" THEN TRUE ELSE call[k]]

\* the call returned ret after n requests to its backend
DoneSent(ret, n) ==
    [k \in DOMAIN call \cup {"ret", "requests"} |->
        IF k = "ret" THEN ret ELSE IF k = "requests" THEN n
        ELSE IF k = "done" THEN TRUE ELSE call[k]]

CallFilter ==
    /\ call.op = "filter" /\ ~call.done
    /\ call' = Done(filter_trending_news(call.keywords, call.articles,
                                         call.min_relevance))
    /\ UNCHANGED wfVars

CallScript ==
    /\ call.op = "script" /\ ~call.done
    /\ call' = DoneSent(generate_youtube_script(AIScriptGenerator(call.service),
                                                call.article, call.outcome),
                        AiRequests(AIScriptGenerator(call.service)))
    /\ UNCHANGED wfVars

CallThumbnail ==
    /\ call.op = "thumbnail" /\ ~call.done
    /\ call' = DoneSent(generate_thumbnail_titles(AIScriptGenerator(call.service),
                                                  call.article, call.count, call.outcome),
                        AiRequests(AIScriptGenerator(call.service)))
    /\ UNCHANGED wfVars

CallMetadata ==
    /\ call.op = "metadata" /\ ~call.done
    /\ call' = DoneSent(generate_video_metadata(AIScriptGenerator(call.service),
                                                call.article, call.script, call.outcome),
                        IF call.script.isNone THEN 0
                        ELSE AiRequests(AIScriptGenerator(call.service)))
    /\ UNCHANGED wfVars

CallAudio ==
    /\ call.op = "audio" /\ ~call.done
    /\ call' = DoneSent(generate_audio(call.service, call.text, call.outcome),
                        TtsRequests(call.service, call.outcome))
    /\ UNCHANGED wfVars

CallUpload ==
    /\ call.op = "upload" /\ ~call.done
    /\ call' = Done(upload_video(call.client, call.args, call.outcome))
    /\ UNCHANGED wfVars

CallCollect ==
    /\ call.op = "collect" /\ ~call.done
    /\ call' = Done([articles |-> collect_all_news(call.keywords, call.feeds),
                     requests |-> FeedRequests(call.keywords)])
    /\ UNCHANGED wfVars

CallSplit ==
    /\ call.op = "split" /\ ~call.done
    /\ call' = Done(split_text_for_tts(call.text, call.max_length))
    /\ UNCHANGED wfVars

CallSelect ==
    /\ call.op = "select" /\ ~call.done
    /\ call' = Done(_step2_select_articles(call.articles, call.config))
    /\ UNCHANGED wfVars

OpsNext ==
    \/ CallFilter
    \/ CallScript
    \/ CallThumbnail
    \/ CallMetadata
    \/ CallAudio
    \/ CallUpload
    \/ CallCollect
    \/ CallSplit
    \/ CallSelect

\* each operation on every input of the bounded sets
SpecOps == OpsInit /\ [][OpsNext]_vars

-----------------------------------------------------------------------------
(* Properties of the orchestrator, checked under Spec *)

StagePcs == {"script", "thumbnail", "metadata", "audio", "assemble", "publish"}

Terminal == {"completed", "failed"}

HasStatus(r) == "status" \in DOMAIN r

C1_Records ==
    /\ pc \in {"collect", "select", "stopped", "loop", "done"} \cup StagePcs
    /\ Len(results) <= Len(selected)
    /\ \A i \in 1..Len(results) : results[i].article_title = selected[i].title
    /\ pc \in StagePcs => Len(results) = idx - 1
    /\ pc = "loop" => Len(results) = idx
    /\ pc = "done" => Len(results) = Len(selected)
    /\ (pc = "loop" /\ idx < Len(selected)) => ENABLED BeginRun /\ ~ENABLED SaveResults

C1_Raise ==
    (pc \in StagePcs /\ last'.ret.raised) =>
        /\ result' = [k \in DOMAIN result \cup {"error"} |->
                        IF k = "status" THEN "failed"
                        ELSE IF k = "error" THEN last'.ret.error
                        ELSE result[k]]
        /\ result'.error # ""
        /\ result'.article_title = selected[idx].title
        /\ results' = Append(results, result')
        /\ pc' = "loop"
        /\ idx' = idx
        /\ selected' = selected

\* C1: every selected article gets exactly one result record, in selection
\* order; a stage that raises turns only the record of its own article into
\* 'failed' with the error text, the records before it stay as they are, and
\* the loop goes on with the next article, so that at the end there are as
\* many records as selected articles.
C1_OneRecordPerArticle == []C1_Records /\ [][C1_Raise]_vars

\* a batch whose first run failed and whose second run completed
C1_Witness ==
    /\ pc = "done"
    /\ Len(results) = 2
    /\ results[1].status = "failed"
    /\ results[2].status = "completed"

C2_Records ==
    /\ \A i \in 1..Len(results) :
          /\ results[i].status \in Terminal
          /\ results[i].status = "failed" =>
                "error" \in DOMAIN results[i] /\ results[i].error # ""
    /\ HasStatus(result) => result.status \in {"processing"} \cup Terminal
    /\ (HasStatus(result) /\ result.status = "processing") <=> pc \in StagePcs

C2_Step ==
    /\ idx' # idx => result'.status = "processing"
    /\ (idx' = idx /\ HasStatus(result)) =>
          /\ result.status \in Terminal => result' = result
          /\ result.status = "processing" =>
                result'.status \in {"processing"} \cup Terminal
    /\ Len(results') \in {Len(results), Len(results) + 1}
    /\ \A i \in 1..Len(results) : results'[i] = results[i]
    /\ Len(results') = Len(results) + 1 =>
          /\ results'[Len(results')] = result'
          /\ result.status = "processing"
          /\ result'.status \in Terminal

\* C2: a run record starts as 'processing' and changes its status once, to
\* 'completed' or 'failed'; a returned record is never 'processing', a
\* 'failed' one carries an error text, and a record with a terminal status
\* is never changed again.
C2_StatusTransitions == []C2_Records /\ [][C2_Step]_vars

\* the second run is in progress after the first one failed
C2_Witness ==
    /\ idx = 2
    /\ result.status = "processing"
    /\ results[1].status = "failed"
    /\ pc = "audio"

StageOrder == <<"script", "thumbnail", "metadata", "audio", "assemble", "publish">>

\* the key under which each of the first five stages leaves its output
Artifacts == <<"script", "thumbnail_title", "metadata", "audio_file", "video_file">>

\* C3: within a run the stages start in the order script, thumbnail titles,
\* metadata, audio, assemble, publish: a stage starts only when every earlier
\* one has returned, none starts twice, nothing starts after a stage that
\* raised, and a completed run has run the first five, and publish exactly
\* when auto-publish is on.
C3_StageOrder ==
    /\ Len(stages) <= Len(StageOrder)
    /\ stages = SubSeq(StageOrder, 1, Len(stages))
    /\ \A k \in 2..Len(stages) : Artifacts[k - 1] \in DOMAIN result
    /\ (HasStatus(result) /\ result.status = "failed") =>
          /\ Len(stages) \in 1..Len(Artifacts)
          /\ Artifacts[Len(stages)] \notin DOMAIN result
    /\ (HasStatus(result) /\ result.status = "completed") =>
          /\ \A k \in 1..Len(Artifacts) : Artifacts[k] \in DOMAIN result
          /\ Len(stages) = IF config.auto_upload THEN 6 ELSE 5

\* a run that went through all six stages
C3_Witness == stages = StageOrder /\ result.status = "completed"

\* C4: with auto-publish off, upload_video is never invoked, and every
\* returned record whose five stages succeeded is 'completed' and has
\* neither video_url nor video_id.
C4_NoUploadWhenDisabled ==
    ~config.auto_upload =>
        /\ calls.upload = 0
        /\ \A i \in 1..Len(stages) : stages[i] # "publish"
        /\ \A i \in 1..Len(results) :
              /\ "video_file" \in DOMAIN results[i] => results[i].status = "completed"
              /\ "video_url" \notin DOMAIN results[i]
              /\ "video_id" \notin DOMAIN results[i]

\* a run completed with a real generation backend and auto-publish off
C4_Witness ==
    /\ ~config.auto_upload
    /\ config.ai_service = "openai"
    /\ Len(results) = 1
    /\ results[1].status = "completed"

\* C5: an aggregate record is written only when the last run has reached its
\* terminal state, and then exactly one: it holds one entry per run, each
\* 'completed' or 'failed', and total_videos is the number of runs.
C5_OneAggregate ==
    /\ Len(saved) <= 1
    /\ saved # <<>> <=> pc = "done"
    /\ pc = "done" =>
          /\ idx = Len(selected)
          /\ saved[1].results = results
          /\ Len(saved[1].results) = idx
          /\ \A i \in 1..idx : saved[1].results[i].status \in Terminal
          /\ saved[1].total_videos = idx

\* the aggregate of two runs, one of them failed
C5_Witness ==
    /\ pc = "done"
    /\ saved[1].total_videos = 2
    /\ \E i \in 1..2 : saved[1].results[i].status = "failed"

\* both backends are the offline stand-ins and auto-publish is off
Offline ==
    /\ config.ai_service = "mock"
    /\ config.tts_service = "mock"
    /\ ~config.auto_upload

\* C6: in the offline configuration no request is sent to any backend, the
\* thumbnail stage gets exactly 10 titles, the audio stage gets status
\* 'success (mock)', and every returned record is 'completed' with a
\* non-empty script.
C6_OfflineRun ==
    Offline =>
        /\ calls = NoCalls
        /\ last.op = "thumbnail" =>
              /\ ~last.ret.raised
              /\ Len(last.ret.value) = 10
              /\ result.thumbnail_title = last.ret.value[1]
        /\ last.op = "audio" =>
              /\ ~last.ret.raised
              /\ last.ret.value.status = "success (mock)"
        /\ \A i \in 1..Len(results) :
              /\ results[i].status = "completed"
              /\ ~results[i].script.isNone
              /\ Strip(JoinLines(results[i].script.lines)) # <<>>

\* an offline run has got its thumbnail titles
C6_Witness == Offline /\ last.op = "thumbnail" /\ pc = "metadata"

-----------------------------------------------------------------------------
(* Properties of the operations, checked under SpecOps *)

\* the lowercase form of w occurs in the lowercased t
Occurs(w, t) ==
    \E i \in 0..(Len(t) - Len(w)) : \A j \in 1..Len(w) : Lower(t)[i + j] = Lower(w)[j]

\* (number of matching keywords) + 0.5, in quarters
ExpectedScore(ks, t) == 4 * Cardinality({k \in 1..Len(ks) : Occurs(ks[k], t)}) + 2

Occurrences(s, title) == Cardinality({i \in 1..Len(s) : s[i].title = title})

FilterDone == call.op = "filter" /\ call.done

\* C7: filter_trending_news gives every article the score (matching
\* keywords) + 0.5 and returns exactly the articles whose score is at least
\* min_relevance: one at the threshold is kept, one below it is dropped.
C7_FilterThreshold ==
    FilterDone =>
        /\ \A i \in 1..Len(call.ret) :
              /\ call.ret[i].relevance_score
                    = ExpectedScore(call.keywords, call.ret[i].title)
              /\ call.ret[i].relevance_score >= call.min_relevance
        /\ \A a \in NewsPool :
              Occurrences(call.ret, a.title)
                 = IF ExpectedScore(call.keywords, a.title) >= call.min_relevance
                   THEN Occurrences(call.articles, a.title)
                   ELSE 0

\* an article at the threshold is kept while another one is dropped
C7_Witness ==
    /\ FilterDone
    /\ \E i \in 1..Len(call.ret) : call.ret[i].relevance_score = call.min_relevance
    /\ Len(call.ret) < Len(call.articles)
    /\ call.min_relevance > 2

TitlesOf(s) == [i \in 1..Len(s) |-> s[i].title]

\* C8: the list filter_trending_news returns is in non-increasing order of
\* score, and the articles of one score are in the order the input has them.
C8_StableDescending ==
    FilterDone =>
        /\ \A i, j \in 1..Len(call.ret) :
              i < j => call.ret[i].relevance_score >= call.ret[j].relevance_score
        /\ \A n \in {call.ret[i].relevance_score : i \in 1..Len(call.ret)} :
              TitlesOf(SelectSeq(call.ret, LAMBDA a : a.relevance_score = n))
                 = TitlesOf(SelectSeq(call.articles,
                                      LAMBDA a : ExpectedScore(call.keywords, a.title) = n))

\* two different articles tie behind an article that the input had last
C8_Witness ==
    /\ FilterDone
    /\ Len(call.ret) = 3
    /\ call.ret[1].title = call.articles[3].title
    /\ call.ret[1].relevance_score > call.ret[2].relevance_score
    /\ call.ret[2].relevance_score = call.ret[3].relevance_score
    /\ call.ret[2].title # call.ret[3].title

RealBackends == {"openai", "gemini", "anthropic"}

\* the request raised, the status is not 2xx, or the body cannot be parsed
BackendFailed(o) ==
    \/ o.kind = "exception"
    \/ o.status \notin 200..299
    \/ o.body = "invalid"

\* what the operation of the call returns from the offline stand-in
StandIn ==
    CASE call.op = "script" ->
            generate_youtube_script("mock", call.article, Exception)
      [] call.op = "thumbnail" ->
            generate_thumbnail_titles("mock", call.article, call.count, Exception)
      [] call.op = "metadata" ->
            generate_video_metadata("mock", call.article, call.script, Exception)

\* C9: with a real backend, each of the three generator operations returns
\* the stand-in's output when the request raises, is answered with a
\* non-2xx status or with a body that cannot be parsed, and no answer of
\* the backend makes the operation raise.
C9_GeneratorNeverRaises ==
    (/\ call.op \in {"script", "thumbnail", "metadata"}
     /\ call.done
     /\ call.service \in RealBackends
     /\ ~call.script.isNone) =>
        /\ ~call.ret.raised
        /\ BackendFailed(call.outcome) => call.ret = StandIn

\* the import failed, the request raised, or the status is not 2xx
SynthesisFailed(o) ==
    \/ ~o.lib
    \/ o.kind = "exception"
    \/ o.status \notin 200..299

\* C10: for every synthesis backend and every failure of it, generate_audio
\* does not raise and returns status 'success (mock)'; it returns 'success'
\* only when the backend answered successfully.
C10_AudioNeverRaises ==
    (call.op = "audio" /\ call.done) =>
        /\ ~call.ret.raised
        /\ SynthesisFailed(call.outcome) =>
              call.ret.value.status = "success (mock)"
        /\ call.ret.value.status = "success" => ~SynthesisFailed(call.outcome)

UploadDone == call.op = "upload" /\ call.done

\* the requests of the main upload among those a call sent
InsertRequests == {i \in 1..Len(call.ret.sent) : call.ret.sent[i].request = "videos.insert"}

\* C11: with an authenticated client, whatever place of the main upload
\* raises, the first or a later chunk included, upload_video does not raise
\* and returns status 'error' with the error text and without video_id and
\* video_url.
C11_UploadErrorResult ==
    (UploadDone /\ call.client) =>
        /\ ~call.ret.ret.raised
        /\ call.outcome.fail # "none" =>
              /\ call.ret.ret.value.status = "error"
              /\ call.ret.ret.value.error = ErrorText(call.outcome.fail)
              /\ call.ret.ret.value.error # ""
              /\ "video_id" \notin DOMAIN call.ret.ret.value
              /\ "video_url" \notin DOMAIN call.ret.ret.value

\* the second chunk of an upload raised
C11_Witness ==
    /\ UploadDone /\ call.client
    /\ call.outcome.fail = "chunk" /\ call.outcome.at = 2
    /\ Len(call.ret.sent) = 2
    /\ call.ret.ret.value.status = "error"

\* C16: the title sent is the first min(len(title), 100) characters of the
\* title given and the description sent the first min(len(description),
\* 5000) of the description given; a text over its limit is no error.
C16_Truncation ==
    (UploadDone /\ call.client) =>
        /\ \A i \in InsertRequests :
              LET snippet == call.ret.sent[i].body.snippet
                  n == IF Len(call.args.title) < 100 THEN Len(call.args.title) ELSE 100
                  m == IF Len(call.args.description) < 5000
                       THEN Len(call.args.description) ELSE 5000
              IN  /\ snippet.title = SubSeq(call.args.title, 1, n)
                  /\ snippet.description = SubSeq(call.args.description, 1, m)
        /\ call.outcome.fail = "none" =>
              /\ InsertRequests # {}
              /\ call.ret.ret.value.status = "success"

\* a title of 150 characters went out as 100, a description of 6000 as 5000
C16_Witness ==
    /\ UploadDone
    /\ Len(call.args.title) = 150 /\ Len(call.args.description) = 6000
    /\ Len(call.ret.sent[1].body.snippet.title) = 100
    /\ Len(call.ret.sent[1].body.snippet.description) = 5000
    /\ call.ret.ret.value.status = "success"

\* C17: the upload request has a publishAt field exactly when publish_at
\* was given and privacy_status is 'private'; otherwise publish_at is left
\* out without an error, and the privacy status goes out as given.
C17_PublishAtOnlyPrivate ==
    (UploadDone /\ call.client) =>
        /\ \A i \in InsertRequests :
              LET status == call.ret.sent[i].body.status
              IN  /\ "publishAt" \in DOMAIN status
                        <=> (call.args.publish_at # "None"
                             /\ call.args.privacy_status = "private")
                  /\ "publishAt" \in DOMAIN status =>
                        status.publishAt = <<call.args.publish_at, "Z">>
                  /\ status.privacyStatus = call.args.privacy_status
        /\ call.outcome.fail = "none" => call.ret.ret.value.status = "success"

\* a public upload was given a publish_at and went out without it
C17_Witness ==
    /\ UploadDone /\ call.client
    /\ call.args.publish_at # "None" /\ call.args.privacy_status = "public"
    /\ InsertRequests # {}
    /\ call.ret.ret.value.status = "success"

\* C20: a thumbnail request is the last request of a call, sent after all
\* chunks of a main upload that returned its video id, and only for a
\* thumbnail file that was given and exists; whatever becomes of it, the
\* result is 'success' with the video id and URL of the main upload.
C20_ThumbnailAfterUpload ==
    (UploadDone /\ call.client) =>
        LET sent == call.ret.sent
            thumbs == {i \in 1..Len(sent) : sent[i].request = "thumbnails.set"}
        IN  /\ \A i \in thumbs :
                  /\ i = Len(sent) /\ i = call.outcome.chunks + 1
                  /\ \A j \in 1..(i - 1) : sent[j].request = "videos.insert"
                  /\ call.outcome.fail = "none"
                  /\ sent[i].videoId = call.ret.ret.value.video_id
                  /\ sent[i].file = call.args.thumbnail_file
                  /\ call.args.thumbnail_file # "None" /\ call.outcome.exists
            /\ (call.outcome.fail = "none" /\ call.args.thumbnail_file # "None"
                  /\ call.outcome.exists) => thumbs # {}
            /\ call.outcome.fail = "none" =>
                  /\ call.ret.ret.value.status = "success"
                  /\ call.ret.ret.value.video_id = "id"
                  /\ call.ret.ret.value.video_url = "https://www.youtube.com/watch?v=id"

\* the thumbnail request of a two-chunk upload failed
C20_Witness ==
    /\ UploadDone /\ call.client
    /\ call.outcome.thumb = "exception" /\ call.outcome.chunks = 2
    /\ Len(call.ret.sent) = 3
    /\ call.ret.sent[3].request = "thumbnails.set"
    /\ call.ret.ret.value.status = "success"

CollectDone == call.op = "collect" /\ call.done

\* the number of articles the i-th keyword of the call contributes
Contribution(i) ==
    IF ~call.feeds[i].ok THEN 0
    ELSE IF Len(call.feeds[i].entries) < 10 THEN Len(call.feeds[i].entries) ELSE 10

\* the number of articles the first i keywords of the call contribute
Before[i \in 0..Len(call.keywords)] ==
    IF i = 0 THEN 0 ELSE Before[i - 1] + Contribution(i)

\* C18: collect_all_news sends one feed request per keyword, in keyword
\* order, and returns, in keyword order, the articles of the keywords whose
\* request and parsing went well, a title as often as the feeds have it; a
\* keyword that failed contributes nothing and stops nothing.
C18_CollectAllKeywords ==
    CollectDone =>
        /\ Len(call.ret.requests) = Len(call.keywords)
        /\ \A i \in 1..Len(call.keywords) : call.ret.requests[i].q = call.keywords[i]
        /\ Len(call.ret.articles) = Before[Len(call.keywords)]
        /\ \A i \in 1..Len(call.keywords) : \A k \in 1..Contribution(i) :
              /\ call.ret.articles[Before[i - 1] + k].title = call.feeds[i].entries[k]
              /\ call.ret.articles[Before[i - 1] + k].keyword = call.keywords[i]

\* the first keyword failed after an entry was read, the second gave the
\* same title twice
C18_Witness ==
    /\ CollectDone
    /\ Len(call.keywords) = 2
    /\ ~call.feeds[1].ok /\ call.feeds[1].entries # <<>>
    /\ call.feeds[2].ok
    /\ Len(call.ret.articles) = 2
    /\ call.ret.articles[1].title = call.ret.articles[2].title
    /\ call.ret.articles[1].keyword = call.keywords[2]

SplitDone == call.op = "split" /\ call.done

\* C12: every chunk split_text_for_tts returns is at most max_length long,
\* also when the text is one sentence, without '. ' in it, that is longer
\* than max_length.
C12_ChunksWithinLimit ==
    SplitDone => \A i \in 1..Len(call.ret) : Len(call.ret[i]) <= call.max_length

\* the characters of s that are not whitespace, in order
Content(s) == SelectSeq(s, LAMBDA c : c \notin {" ", "\n"})

\* the chunks one after the other
RECURSIVE Concatenation(_)
Concatenation(chunks) ==
    IF chunks = <<>> THEN <<>> ELSE Head(chunks) \o Concatenation(Tail(chunks))

\* C13: the chunks of split_text_for_tts, one after the other and with the
\* whitespace between sentences left aside, are the content of the text:
\* nothing is lost, doubled or moved, and no character is added, a period at
\* the end included.
C13_ContentPreserved ==
    SplitDone => Content(Concatenation(call.ret)) = Content(call.text)

\* the operation of the call got a text from its backend
Answered(op) ==
    /\ call.op = op /\ call.done
    /\ call.service \in RealBackends
    /\ call.outcome.kind = "response" /\ call.outcome.status = 200
    /\ call.outcome.body = "text"

\* the number of digits s begins with
LeadingDigits(s) ==
    CHOOSE n \in 0..Len(s) :
        /\ \A i \in 1..n : IsDigit(s[i])
        /\ n = Len(s) \/ ~IsDigit(s[n + 1])

\* behind blanks, the line begins with a number and '.', ')' or ':'
HasNumeralPrefix(line) ==
    LET s == LStrip(line)
        n == LeadingDigits(s)
    IN  n > 0 /\ n < Len(s) /\ s[n + 1] \in {".", ")", ":"}

\* the line without the number, the punctuation after it and the blanks
WithoutNumeralPrefix(line) ==
    LET s == LStrip(line)
    IN  Strip(SubSeq(s, LeadingDigits(s) + 2, Len(s)))

\* C14: generate_thumbnail_titles returns, in the order of the answer, the
\* first min(N, count) of its N lines that begin with a numeral prefix,
\* each without the number and the '.', ')' or ':' after it; no other line
\* is returned, and blanks before the number do not drop a line.
C14_NumberedTitles ==
    Answered("thumbnail") =>
        LET numbered == SelectSeq(call.outcome.text.lines, HasNumeralPrefix)
            n == IF Len(numbered) < call.count THEN Len(numbered) ELSE call.count
        IN  /\ ~call.ret.raised
            /\ call.ret.value = [i \in 1..n |-> WithoutNumeralPrefix(numbered[i])]

\* the text behind the marker in the last line of the answer that starts
\* with the marker
Marked(marker) ==
    LET lines == call.outcome.text.lines
        at == {i \in 1..Len(lines) : Len(lines[i]) >= Len(marker)
                                       /\ SubSeq(lines[i], 1, Len(marker)) = marker}
        last_at == CHOOSE i \in at : \A j \in at : j <= i
    IN  [present |-> at # {},
         text |-> IF at = {} THEN <<>>
                  ELSE SubSeq(lines[last_at], Len(marker) + 1, Len(lines[last_at]))]

\* the places that bound the comma-separated parts of s, in order
Cuts(s) == {0, Len(s) + 1} \cup {i \in 1..Len(s) : s[i] = ","}

Cut(s, k) == CHOOSE c \in Cuts(s) : Cardinality({d \in Cuts(s) : d < c}) = k - 1

\* the comma-separated parts of s, each trimmed
TrimmedParts(s) ==
    [k \in 1..(Cardinality(Cuts(s)) - 1) |->
        Strip(SubSeq(s, Cut(s, k) + 1, Cut(s, k + 1) - 1))]

\* C15: called with a script, generate_video_metadata does not raise on
\* any answer text; its result has title, description and tags exactly for the markers
\* VIDEO_TITLE:, DESCRIPTION: and TAGS: that start a line of the answer,
\* and tags is the comma-separated list behind TAGS:, each tag trimmed.
C15_MetadataFields ==
    (Answered("metadata") /\ ~call.script.isNone) =>
        /\ ~call.ret.raised
        /\ DOMAIN call.ret.value \subseteq {"title", "description", "tags"}
        /\ "title" \in DOMAIN call.ret.value <=> Marked(M_VIDEO_TITLE).present
        /\ "description" \in DOMAIN call.ret.value <=> Marked(M_DESCRIPTION).present
        /\ "tags" \in DOMAIN call.ret.value <=> Marked(M_TAGS).present
        /\ Marked(M_VIDEO_TITLE).present =>
              call.ret.value.title = Strip(Marked(M_VIDEO_TITLE).text)
        /\ Marked(M_TAGS).present =>
              call.ret.value.tags = TrimmedParts(Strip(Marked(M_TAGS).text))

\* an answer with a title and three tags and without a description
C15_Witness ==
    /\ Answered("metadata")
    /\ DOMAIN call.ret.value = {"title", "tags"}
    /\ Len(call.ret.value.tags) = 3
    /\ call.ret.value.tags[1] = <<"k-gyeong", "k-je">>

\* C19: a generator built with an unknown name or with no name for its
\* backend hands every request to the offline stand-in and sends no HTTP
\* request.
C19_UnsetIsOffline ==
    (/\ call.op \in {"script", "thumbnail", "metadata"}
     /\ call.done
     /\ call.service \notin RealBackends
     /\ ~call.script.isNone) =>
        /\ call.requests = 0
        /\ call.ret = StandIn

\* C19, for the orchestrator: a configuration without 'ai_service', or with
\* a name that is no real backend, sends no text-generation request.
C19_ConfigWithoutService ==
    config.ai_service \notin RealBackends => calls.ai = 0

\* the requests a finished call of any operation sent to its backend
RequestsSent ==
    IF call.op = "upload" THEN Len(call.ret.sent)
    ELSE IF call.op \in {"script", "thumbnail", "metadata", "audio"} THEN call.requests
    ELSE 0

\* C21 as it is worded: one invocation of a generation, synthesis or publish
\* operation sends at most one request to its backend.
C21_AtMostOneRequest == call.done => RequestsSent <= 1

\* C21: no operation sends a request again.  A generation or synthesis
\* operation sends at most one request, and after a failed one it returns
\* the stand-in's output; a publish operation sends every chunk of the
\* upload once, in order, and at most one thumbnail request, and after a
\* failed upload request it sends nothing more and returns the error result.
C21_NoRetry ==
    call.done =>
        /\ call.op \in {"script", "thumbnail", "metadata"} =>
              /\ call.requests <= 1
              /\ (call.requests = 1 /\ BackendFailed(call.outcome)) => call.ret = StandIn
        /\ call.op = "audio" =>
              /\ call.requests <= 1
              /\ (~call.ret.raised /\ SynthesisFailed(call.outcome)) =>
                    call.ret.value.status = "success (mock)"
        /\ call.op = "upload" =>
              LET sent == call.ret.sent
                  chunks == {i \in 1..Len(sent) : sent[i].request = "videos.insert"}
              IN  /\ \A i \in chunks : sent[i].chunk = i
                  /\ Len(sent) <= Cardinality(chunks) + 1
                  /\ Cardinality(chunks) <= call.outcome.chunks
                  /\ (call.client /\ call.outcome.fail # "none") =>
                        /\ call.ret.ret.value.status = "error"
                        /\ Len(sent) = Cardinality(chunks)
                        /\ call.outcome.fail = "chunk" => Len(sent) = call.outcome.at

\* the one request of a generation failed and the stand-in answered
C21_Witness ==
    /\ call.op = "script" /\ call.done
    /\ call.service = "openai"
    /\ call.outcome.kind = "exception"
    /\ call.requests = 1
    /\ call.ret = StandIn

\* the stages, by their place in the order, whose artifact the record holds
Present(r) == {k \in 1..Len(Artifacts) : Artifacts[k] \in DOMAIN r}

\* C22: a run record holds the artifacts of exactly the stages that
\* returned: a record that failed in stage k holds those of the stages
\* before k and none of stage k or later, a completed record holds script,
\* thumbnail title, metadata, audio file and video file.
C22_ArtifactsOfReturnedStages ==
    /\ \A i \in 1..Len(results) :
          /\ results[i].status = "completed" => Present(results[i]) = 1..5
          /\ results[i].status = "failed" =>
                \E k \in 1..5 : Present(results[i]) = 1..(k - 1)
    /\ HasStatus(result) =>
          /\ result.status = "processing" => Present(result) = 1..Len(stages)
          /\ result.status = "failed" => Present(result) = 1..(Len(stages) - 1)
          /\ result.status = "completed" => Present(result) = 1..5
          /\ "audio_file" \in DOMAIN result => result.audio_file = AudioPath
          /\ "video_file" \in DOMAIN result => result.video_file = VideoPath

\* the audio stage of a run raised: script, thumbnail title and metadata
\* are in the failed record
C22_Witness ==
    /\ Len(results) = 1
    /\ results[1].status = "failed"
    /\ Present(results[1]) = 1..3
    /\ stages = <<"script", "thumbnail", "metadata", "audio">>

\* C23: the offline stand-in answers each operation with the canned answer
\* of that operation: generate_youtube_script returns the narration text and
\* not the numbered titles, generate_thumbnail_titles the titles of the 10
\* numbered lines, and generate_video_metadata title, description and tags.
C23_CannedAnswerPerOperation ==
    (/\ call.op \in {"script", "thumbnail", "metadata"}
     /\ call.done
     /\ call.service = "mock"
     /\ ~call.script.isNone) =>
        /\ ~call.ret.raised
        /\ call.op = "script" =>
              /\ call.ret.value = Str(MockScriptLines)
              /\ call.ret.value # Str(MockTitlesLines)
        /\ call.op = "thumbnail" => Len(call.ret.value) = 10
        /\ call.op = "metadata" =>
              DOMAIN call.ret.value = {"title", "description", "tags"}

\* C24: with auto-publish on, a publish result of status 'error' is recorded
\* in the run: the record of a run whose publish call returned an error
\* result has status 'failed' or carries the error text of the publisher.
C24_PublishErrorRecorded ==
    (/\ last.op = "publish"
     /\ ~last.ret.raised
     /\ last.ret.value.status = "error"
     /\ HasStatus(result)
     /\ result.status \in Terminal) =>
        \/ result.status = "failed"
        \/ /\ "error" \in DOMAIN result
           /\ result.error = last.ret.value.error

\* C25: a successful publish result reports a publish_at other than None
\* only when the schedule went out with the upload, that is when publish_at
\* was given and the privacy status is 'private'; when the schedule was
\* left out of the request, the publish_at of the result is None.
C25_ReportedScheduleWasSent ==
    (/\ UploadDone /\ call.client
     /\ ~call.ret.ret.raised
     /\ call.ret.ret.value.status = "success") =>
        /\ call.ret.ret.value.publish_at # "None" =>
              /\ call.args.publish_at # "None"
              /\ call.args.privacy_status = "private"
              /\ \A i \in InsertRequests :
                    "publishAt" \in DOMAIN call.ret.sent[i].body.status
        /\ (\A i \in InsertRequests :
                "publishAt" \notin DOMAIN call.ret.sent[i].body.status) =>
              call.ret.ret.value.publish_at = "None"

\* C26: when collection and filtering yield no article, run_full_workflow
\* stops before the selection: no run is started, no generation, synthesis
\* or publish operation is called, no aggregate is persisted and nothing
\* more happens; only the collected-news file is written, with no article.
C26_StopsWithoutArticles ==
    /\ (pc # "collect" /\ articles = <<>>) => pc = "stopped"
    /\ pc = "stopped" =>
          /\ articles = <<>>
          /\ selected = <<>> /\ idx = 0
          /\ result = EmptyDict /\ results = <<>>
          /\ stages = <<>> /\ calls = NoCalls /\ last = NoCall
          /\ saved = <<>>
          /\ news_json = << [total_count |-> 0, articles |-> <<>>] >>
          /\ ~ENABLED WfNext

\* the workflow stopped after a collection without articles although the
\* configuration asks for videos
C26_Witness ==
    /\ pc = "stopped"
    /\ TargetCount(config) > 0
    /\ news_json = << [total_count |-> 0, articles |-> <<>>] >>

\* the quota of the run and the number of articles it calls for
Quota == IF "target_videos_per_day" \in DOMAIN config
         THEN config.target_videos_per_day ELSE 3
Planned == Min(Quota, Len(articles))

\* C27: with a ranked list of n articles and a quota q >= 0
\* (target_videos_per_day, 3 when it is not set) the workflow processes
\* exactly the first min(q, n) articles, in ranked order, and never makes
\* more than q runs.
C27_FirstQuotaArticles ==
    /\ pc \notin {"collect", "select", "stopped"} =>
          /\ selected = SubSeq(articles, 1, Planned)
          /\ idx <= Planned
          /\ Len(results) <= idx
          /\ \A i \in 1..Len(results) :
                results[i].article_title = articles[i].title
          /\ (HasStatus(result) /\ idx > 0) =>
                result.article_title = articles[idx].title
    /\ Len(results) <= Quota
    /\ pc = "done" => Len(results) = Planned

\* two articles were ranked, the quota is one, and the workflow ended with
\* the one run of the first article
C27_Witness ==
    /\ pc = "done"
    /\ Quota = 1 /\ Len(articles) = 2
    /\ Len(results) = 1
    /\ results[1].article_title = articles[1].title

\* C27, the selection alone: _step2_select_articles returns the first
\* min(q, n) articles of the ranked list, q being 3 without a
\* 'target_videos_per_day' in the configuration.
C27_SelectionIsPrefix ==
    (call.op = "select" /\ call.done) =>
        LET q == IF "target_videos_per_day" \in DOMAIN call.config
                 THEN call.config.target_videos_per_day ELSE 3
            n == Len(call.articles)
        IN  /\ Len(call.ret) = Min(q, n)
            /\ \A i \in 1..Len(call.ret) : call.ret[i] = call.articles[i]

\* four articles and no quota in the configuration: three are selected
C27_DefaultQuotaReached ==
    /\ call.op = "select" /\ call.done
    /\ "target_videos_per_day" \notin DOMAIN call.config
    /\ Len(call.articles) = 4 /\ Len(call.ret) = 3

=============================================================================
